---- MODULE Spec2Model ----
(***************************************************************************)
(* A model of the wiki server of src/wiki.go: the page store (files        *)
(* data/<title>.txt), the routing done by the patterns registered in main  *)
(* and by makeHandler, the four handlers, and the link expansion done by   *)
(* loadPage.  Strings are sequences of one-character strings, so that the  *)
(* two regular expressions are computed character by character.            *)
(***************************************************************************)
EXTENDS Naturals, Sequences, FiniteSets

\* ------------------------------------------------------------------ bounds

\* Number of requests the server handles at the same time (net/http runs one
\* goroutine per connection; the model caps them).
NumConns == 2

\* Longest page body of the link-expansion specification SpecExpand.
MaxBodyLen == 5

\* ------------------------------------------------------- characters, words

Lower == {"a","b","c","d","e","f","g","h","i","j","k","l","m",
          "n","o","p","q","r","s","t","u","v","w","x","y","z"}
Upper == {"A","B","C","D","E","F","G","H","I","J","K","L","M",
          "N","O","P","Q","R","S","T","U","V","W","X","Y","Z"}
Digit == {"0","1","2","3","4","5","6","7","8","9"}

\* The character class [a-zA-Z0-9] of validPath and interPageLink.
Alnum == Lower \cup Upper \cup Digit

Slash == <<"/">>

W_edit == <<"e","d","i","t">>
W_save == <<"s","a","v","e">>
W_view == <<"v","i","e","w">>
W_delete == <<"d","e","l","e","t","e">>
W_foo == <<"f","o","o">>

\* The alternation (edit|save|view|delete) of validPath.
OpWords == {W_edit, W_save, W_view, W_delete}

FrontPage == <<"F","r","o","n","t","P","a","g","e">>
OtherTitle == <<"A","b","1">>

\* The page titles of the model: the default page and one other page.
Titles == {FrontPage, OtherTitle}

HasPrefix(s, p) == Len(s) >= Len(p) /\ SubSeq(s, 1, Len(p)) = p

AllAlnum(s) == \A i \in 1..Len(s) : s[i] \in Alnum

\* ---------------------------------------------------------------- routing

\* validPath.FindStringSubmatch(path) for ^/(edit|save|view|delete)/([a-zA-Z0-9]+)$:
\* ok is "m != nil", op is m[1] and title is m[2].
validPath(path) ==
    LET hits == {op \in OpWords :
                    /\ HasPrefix(path, Slash \o op \o Slash)
                    /\ Len(path) > Len(op) + 2
                    /\ AllAlnum(SubSeq(path, Len(op) + 3, Len(path)))}
    IN  IF hits = {}
        THEN [ok |-> FALSE, op |-> <<>>, title |-> <<>>]
        ELSE LET op == CHOOSE o \in hits : TRUE
             IN  [ok |-> TRUE, op |-> op,
                  title |-> SubSeq(path, Len(op) + 3, Len(path))]

\* The patterns main registers with http.HandleFunc.
P_root == Slash
P_view == Slash \o W_view \o Slash
P_edit == Slash \o W_edit \o Slash
P_save == Slash \o W_save \o Slash
P_delete == Slash \o W_delete \o Slash

Patterns == {P_root, P_view, P_edit, P_save, P_delete}

\* The function main registers for a pattern.
Registered(p) ==
    CASE p = P_root -> "redirFrontPage"
      [] p = P_view -> "viewHandler"
      [] p = P_edit -> "editHandler"
      [] p = P_save -> "saveHandler"
      [] p = P_delete -> "deleteHandler"

\* The path with every run of slashes collapsed to one (what the server's
\* path cleaning does to a path without dot segments).
RECURSIVE CleanPath(_)
CleanPath(p) ==
    IF Len(p) < 2 THEN p
    ELSE IF p[1] = "/" /\ p[2] = "/" THEN CleanPath(Tail(p))
    ELSE <<p[1]>> \o CleanPath(Tail(p))

\* The patterns of the default ServeMux that match a path: a pattern ending
\* in a slash names a subtree, so "/" matches every path.
Matching(path) == {p \in Patterns : HasPrefix(path, p)}

\* How the default ServeMux serves a path, given the patterns of main: a path
\* that is a registered subtree without its trailing slash, or that is not
\* clean, is redirected by the mux itself; otherwise the longest matching
\* pattern wins.
MuxRoute(path) ==
    IF path \notin Patterns /\ (path \o Slash) \in Patterns
    THEN [kind |-> "muxRedirect", to |-> path \o Slash, pattern |-> <<>>]
    ELSE IF CleanPath(path) # path
    THEN [kind |-> "muxRedirect", to |-> CleanPath(path), pattern |-> <<>>]
    ELSE LET best == CHOOSE p \in Matching(path) :
                        \A q \in Matching(path) : Len(q) <= Len(p)
         IN  [kind |-> "handler", to |-> <<>>, pattern |-> best]

\* ------------------------------------------------------- link expansion

A_open == <<"<","a"," ","h","r","e","f","=","\"","/","v","i","e","w","/">>
A_mid == <<"\"",">">>
A_close == <<"<","/","a",">">>

\* The callback of ReplaceAllFunc: the match without its brackets, formatted
\* by fmt.Sprintf("<a href=\"/view/%s\">%s</a>", name, name).
Replacement(match) ==
    LET name == SubSeq(match, 2, Len(match) - 1)
    IN  A_open \o name \o A_mid \o name \o A_close

\* First index at or after i of b that holds no alphanumeric (Len(b)+1 if none).
RECURSIVE SkipAlnum(_, _)
SkipAlnum(b, i) ==
    IF i > Len(b) \/ b[i] \notin Alnum THEN i ELSE SkipAlnum(b, i + 1)

\* Variant of MatchEnd for \[([a-zA-Z0-9]+)\]: the name must not be empty.
MatchEndPlus(b, i) ==
    IF b[i] # "[" THEN 0
    ELSE LET j == SkipAlnum(b, i + 1)
         IN  IF j <= Len(b) /\ b[j] = "]" /\ j > i + 1 THEN j ELSE 0

\* interPageLink = \[([a-zA-Z0-9]*)\] tried at index i of b: the index of the
\* closing bracket of the match, or 0 when there is no match at i.
MatchEnd(b, i) ==
    IF b[i] # "[" THEN 0
    ELSE LET j == SkipAlnum(b, i + 1)
         IN  IF j <= Len(b) /\ b[j] = "]" THEN j ELSE 0

\* interPageLink.ReplaceAllFunc(body, callback), scanning from index i: the
\* leftmost match is replaced and the scan goes on after it.
RECURSIVE ReplaceAllFrom(_, _)
ReplaceAllFrom(b, i) ==
    IF i > Len(b) THEN <<>>
    ELSE LET e == MatchEnd(b, i)
         IN  IF e > 0
             THEN Replacement(SubSeq(b, i, e)) \o ReplaceAllFrom(b, e + 1)
             ELSE <<b[i]>> \o ReplaceAllFrom(b, i + 1)

ReplaceAllFunc(b) == ReplaceAllFrom(b, 1)

\* ------------------------------------------------------------- page store

VARIABLES
    store,      \* the directory data/: for each title, the file <title>.txt
    removing,   \* per title, the deleteHandler calls between loadPage and os.Remove
    resp,       \* the last request served and what its handler wrote
    hist        \* per title, the last save or delete answered with its success
                \* redirect, forgotten when the file changes otherwise

vars == <<store, removing, resp, hist>>

NoFile == [exists |-> FALSE, data |-> <<>>]
File(b) == [exists |-> TRUE, data |-> b]

\* The Page struct; present = FALSE stands for the nil *Page.
NoPage == [present |-> FALSE, Title |-> <<>>, Body |-> <<>>, DispBody |-> <<>>,
           FromSave |-> FALSE, FromDelete |-> FALSE]

\* loadPage(title): the error of ReadFile, or the page with its links expanded.
loadPage(st, title) ==
    IF ~st[title].exists
    THEN [err |-> TRUE, page |-> NoPage]
    ELSE [err |-> FALSE,
          page |-> [present |-> TRUE, Title |-> title, Body |-> st[title].data,
                    DispBody |-> ReplaceAllFunc(st[title].data),
                    FromSave |-> FALSE, FromDelete |-> FALSE]]

\* What can happen to ioutil.WriteFile(filename, body, 0600): it succeeds, it
\* fails to open the file (nothing changes), or it fails after truncating the
\* file and writing the first n bytes.
WriteFaults(body) ==
    {[kind |-> "ok", n |-> Len(body)], [kind |-> "open", n |-> 0]}
    \cup {[kind |-> "write", n |-> k] : k \in 0..(Len(body) - 1)}

\* No fault, for a request that does not reach WriteFile.
NoFault == [kind |-> "ok", n |-> 0]

\* Variant of save that appends to the file instead of truncating it.
saveAppend(st, p, fault) ==
    IF fault.kind = "open"
    THEN [err |-> TRUE, store |-> st]
    ELSE [err |-> fault.kind # "ok",
          store |-> [st EXCEPT ![p.Title] =
                        File(st[p.Title].data \o SubSeq(p.Body, 1, fault.n))]]

\* Page.save(): the store after WriteFile and whether it returned an error.
save(st, p, fault) ==
    IF fault.kind = "open"
    THEN [err |-> TRUE, store |-> st]
    ELSE [err |-> fault.kind # "ok",
          store |-> [st EXCEPT ![p.Title] = File(SubSeq(p.Body, 1, fault.n))]]

\* Variant of osRemove that reports success and leaves the file.
osRemoveKeep(st, title, fault) ==
    IF ~st[title].exists \/ fault
    THEN [err |-> TRUE, store |-> st]
    ELSE [err |-> FALSE, store |-> st]

\* Variant of osRemove that removes every file of data/.
osRemoveAll(st, title, fault) ==
    IF ~st[title].exists \/ fault
    THEN [err |-> TRUE, store |-> st]
    ELSE [err |-> FALSE, store |-> [t \in DOMAIN st |-> NoFile]]

\* os.Remove("data/" + title + ".txt"): an error when the file is absent or
\* when the removal is refused (fault); otherwise the file is gone.

osRemove(st, title, fault) ==
    IF ~st[title].exists \/ fault
    THEN [err |-> TRUE, store |-> st]
    ELSE [err |-> FALSE, store |-> [st EXCEPT ![title] = NoFile]]

\* ----------------------------------------------------------- responses

StatusOK == 200
StatusMovedPermanently == 301
StatusFound == 302
StatusTemporaryRedirect == 307
StatusBadRequest == 400
StatusNotFound == 404
StatusInternalServerError == 500

\* A redirect target: a path and the values of the two query parameters
\* ("" when the parameter is not given).
Loc(path, qs, qd) == [path |-> path, from_save |-> qs, from_delete |-> qd]
NoLoc == Loc(<<>>, "", "")

\* The calls a handler makes on its ResponseWriter.  code is the status the
\* call writes, 0 when it writes none.
ErrorCall(msg, code) ==
    [fn |-> "Error", code |-> code, msg |-> msg, loc |-> NoLoc,
     tmpl |-> "", page |-> NoPage]

RedirectCall(loc, code) ==
    [fn |-> "Redirect", code |-> code, msg |-> "", loc |-> loc,
     tmpl |-> "", page |-> NoPage]

\* templates.ExecuteTemplate(w, tmpl+".html", p): it writes the page (the
\* first write sends 200), or returns an error having written nothing.
ExecuteCall(tmpl, p, tmplErr) ==
    [fn |-> "ExecuteTemplate", code |-> IF tmplErr THEN 0 ELSE StatusOK,
     msg |-> "", loc |-> NoLoc, tmpl |-> tmpl, page |-> p]

\* renderTemplate(w, tmpl, p)
renderTemplate(tmpl, p, tmplErr) ==
    IF tmplErr
    THEN <<ExecuteCall(tmpl, p, TRUE),
           ErrorCall("template error", StatusInternalServerError)>>
    ELSE <<ExecuteCall(tmpl, p, FALSE)>>

\* The calls that write a status.
Writes(calls) == SelectSeq(calls, LAMBDA c : c.code > 0)

\* The status the client receives: the first WriteHeader wins, later ones
\* are dropped by the ResponseWriter.
Status(r) == IF Writes(r.calls) = <<>> THEN 0 ELSE Writes(r.calls)[1].code

\* The response is a redirect the client receives.
IsRedirect(r) == Writes(r.calls) # <<>> /\ Writes(r.calls)[1].fn = "Redirect"

Location(r) == Writes(r.calls)[1].loc

\* ------------------------------------------------------------- handlers

QTrue == "true"
POST == "POST"

\* The target "/edit/"+title of viewHandler and the two success targets.
EditLoc(title) == Loc(P_edit \o title, "", "")
SavedLoc(title) == Loc(P_view \o title, QTrue, "")
DeletedLoc == Loc(P_view \o FrontPage, "", QTrue)

\* Variant of viewHandler: the flags are set before the error of loadPage is
\* looked at, so a flag in the query of a missing page dereferences the nil
\* page and the handler panics without a response.
viewHandlerFlagsFirst(st, title, qs, qd, tmplErr) ==
    LET l == loadPage(st, title)
        p == [l.page EXCEPT !.FromSave = (qs = QTrue) \/ @,
                            !.FromDelete = (qd = QTrue) \/ @]
    IN  IF l.err /\ (qs = QTrue \/ qd = QTrue)
        THEN <<>>
        ELSE IF l.err
        THEN <<RedirectCall(EditLoc(title), StatusFound)>>
        ELSE renderTemplate("view", p, tmplErr)

\* Variant of viewHandler that does not read from_delete.
viewHandlerNoDeleteFlag(st, title, qs, qd, tmplErr) ==
    LET l == loadPage(st, title)
        p == [l.page EXCEPT !.FromSave = (qs = QTrue) \/ @]
    IN  IF l.err
        THEN <<RedirectCall(EditLoc(title), StatusFound)>>
        ELSE renderTemplate("view", p, tmplErr)

\* viewHandler(w, r, title); qs and qd are q.Get("from_save") and
\* q.Get("from_delete").  The result is the calls made on w.
viewHandler(st, title, qs, qd, tmplErr) ==
    LET l == loadPage(st, title)
        p == [l.page EXCEPT !.FromSave = (qs = QTrue) \/ @,
                            !.FromDelete = (qd = QTrue) \/ @]
    IN  IF l.err
        THEN <<RedirectCall(EditLoc(title), StatusFound)>>
        ELSE renderTemplate("view", p, tmplErr)

\* editHandler(w, r, title): a page that cannot be loaded is replaced by
\* &Page{Title: title}.
editHandler(st, title, tmplErr) ==
    LET l == loadPage(st, title)
        p == IF l.err THEN [NoPage EXCEPT !.present = TRUE, !.Title = title]
                      ELSE l.page
    IN  renderTemplate("edit", p, tmplErr)

\* Variant of saveHandler without the check of r.Method.
saveHandlerAnyMethod(st, title, method, form, fault) ==
    LET pg == [NoPage EXCEPT !.present = TRUE, !.Title = title, !.Body = form]
        r == save(st, pg, fault)
    IN  IF r.err
        THEN [calls |-> <<ErrorCall("write error", StatusInternalServerError)>>,
              store |-> r.store]
        ELSE [calls |-> <<RedirectCall(SavedLoc(title), StatusFound)>>,
              store |-> r.store]

\* saveHandler(w, r, title); form is r.FormValue("body").  The result is the
\* calls made on w and the store afterwards.
saveHandler(st, title, method, form, fault) ==
    IF method # POST
    THEN [calls |-> <<ErrorCall("400 - Bad method type", StatusBadRequest)>>,
          store |-> st]
    ELSE LET pg == [NoPage EXCEPT !.present = TRUE, !.Title = title,
                                  !.Body = form]
             r == save(st, pg, fault)
         IN  IF r.err
             THEN [calls |-> <<ErrorCall("write error", StatusInternalServerError)>>,
                   store |-> r.store]
             ELSE [calls |-> <<RedirectCall(SavedLoc(title), StatusFound)>>,
                   store |-> r.store]

\* deleteHandler(w, r, title) up to its call of os.Remove: the calls made on w
\* when it returns early, and whether it goes on to os.Remove.
deleteHandlerCheck(st, title, method) ==
    IF method # POST
    THEN [calls |-> <<ErrorCall("400 - Bad method type", StatusBadRequest)>>,
          goOn |-> FALSE]
    ELSE IF loadPage(st, title).err
    THEN [calls |-> <<ErrorCall("404 - Page not found", StatusNotFound)>>,
          goOn |-> FALSE]
    ELSE [calls |-> <<>>, goOn |-> TRUE]

\* deleteHandler from os.Remove on: the error branch has no return, so the
\* redirect is issued after http.Error as well.
deleteHandlerRemove(st, title, fault) ==
    LET r == osRemove(st, title, fault)
    IN  [store |-> r.store, err |-> r.err,
         calls |-> (IF r.err
                    THEN <<ErrorCall("remove error", StatusInternalServerError)>>
                    ELSE <<>>)
                   \o <<RedirectCall(DeletedLoc, StatusFound)>>]

\* redirFrontPage(w, r)
redirFrontPage ==
    <<RedirectCall(Loc(P_view \o FrontPage, "", ""), StatusTemporaryRedirect)>>

\* The branch m == nil of makeHandler: http.NotFound(w, r).
notFound == <<ErrorCall("404 page not found", StatusNotFound)>>

\* --------------------------------------------------------------- inputs

Methods == {"GET", POST, "PUT"}

\* Query strings: the values of from_save and from_delete, "" standing for a
\* parameter that is not given.
Query(qs, qd) == [from_save |-> qs, from_delete |-> qd]
Queries == {Query("", ""), Query(QTrue, ""), Query("", QTrue),
            Query(QTrue, QTrue), Query("false", "1")}

\* The bodies submitted with the form of the edit page.
FormBodies == {<<>>, <<"[","]">>}

\* The request paths of the model: the root, /<op> and /<op>/ and
\* /<op>/<title> for the four operations, paths outside the four subtrees,
\* titles the route pattern must reject, and paths with a doubled slash.
Paths == {P_root, Slash \o W_foo, Slash \o W_foo \o Slash \o OtherTitle}
         \cup {Slash \o w : w \in OpWords}
         \cup {Slash \o w \o Slash : w \in OpWords}
         \cup {Slash \o w \o Slash \o t : w \in OpWords, t \in Titles}
         \cup {P_view \o <<"a","/","b">>, P_view \o <<"a","-","b">>,
               P_save \o <<"a"," ","b">>}
         \cup {P_view \o Slash \o OtherTitle, P_save \o Slash \o OtherTitle,
               P_delete \o Slash \o OtherTitle}

\* The characters of the bodies of SpecExpand, and those bodies.
BodyChars == {"[", "]", "a", " "}
Texts == UNION {[1..k -> BodyChars] : k \in 0..MaxBodyLen}

\* ---------------------------------------------------------------- actions

RECURSIVE SumOver(_, _)
SumOver(f, S) ==
    IF S = {} THEN 0
    ELSE LET x == CHOOSE y \in S : TRUE IN f[x] + SumOver(f, S \ {x})

\* A handler goroutine is free to take a request.
Idle == SumOver(removing, Titles) < NumConns

\* The record of a served request: how it came in (via), what the code read
\* of it, the function that answered and the calls it made on w.
Served(via, path, handler, title, method, qs, qd, form, calls) ==
    [via |-> via, path |-> path, handler |-> handler, title |-> title,
     method |-> method, from_save |-> qs, from_delete |-> qd, form |-> form,
     calls |-> calls, removeErr |-> FALSE, absentAtRemove |-> FALSE]

NoResp == Served("", <<>>, "", <<>>, "", "", "", <<>>, <<>>)

NoHist == [op |-> "none", data |-> <<>>]

\* MuxRoute and validPath of every request path of the model.
Route == [path \in Paths |-> MuxRoute(path)]
Match == [path \in Paths |-> validPath(path)]

\* The path is routed to the handler function named fn.
RoutedTo(path, fn) ==
    /\ Route[path].kind = "handler"
    /\ Registered(Route[path].pattern) = fn

\* The paths makeHandler passes on to the handler function named fn.
Accepted == [fn \in {"viewHandler", "editHandler", "saveHandler", "deleteHandler"}
                |-> {path \in Paths : RoutedTo(path, fn) /\ Match[path].ok}]

\* The ServeMux redirects the request itself (the requests of the model that
\* it redirects carry no query).
MuxRedirectH(via, path) ==
    /\ Idle
    /\ Route[path].kind = "muxRedirect"
    /\ resp' = Served(via, path, "mux", <<>>, "", "", "", <<>>,
                      <<RedirectCall(Loc(Route[path].to, "", ""),
                                     StatusMovedPermanently)>>)
    /\ UNCHANGED <<store, removing, hist>>

\* The pattern "/" serves the request.
RedirFrontPageH(via, path) ==
    /\ Idle
    /\ RoutedTo(path, "redirFrontPage")
    /\ resp' = Served(via, path, "redirFrontPage", <<>>, "", "", "", <<>>,
                      redirFrontPage)
    /\ UNCHANGED <<store, removing, hist>>

\* makeHandler rejects the path.
NotFoundH(via, path) ==
    /\ Idle
    /\ Route[path].kind = "handler"
    /\ Registered(Route[path].pattern) # "redirFrontPage"
    /\ ~Match[path].ok
    /\ resp' = Served(via, path, "makeHandler", <<>>, "", "", "", <<>>, notFound)
    /\ UNCHANGED <<store, removing, hist>>

ViewH(via, path, qs, qd, tmplErr) ==
    /\ Idle
    /\ RoutedTo(path, "viewHandler")
    /\ Match[path].ok
    /\ LET title == Match[path].title
       IN  resp' = Served(via, path, "viewHandler", title, "", qs, qd, <<>>,
                          viewHandler(store, title, qs, qd, tmplErr))
    /\ UNCHANGED <<store, removing, hist>>

EditH(via, path, tmplErr) ==
    /\ Idle
    /\ RoutedTo(path, "editHandler")
    /\ Match[path].ok
    /\ LET title == Match[path].title
       IN  resp' = Served(via, path, "editHandler", title, "", "", "", <<>>,
                          editHandler(store, title, tmplErr))
    /\ UNCHANGED <<store, removing, hist>>

SaveH(via, path, method, form, fault) ==
    /\ Idle
    /\ RoutedTo(path, "saveHandler")
    /\ Match[path].ok
    /\ LET title == Match[path].title
           r == saveHandler(store, title, method, form, fault)
       IN  /\ resp' = Served(via, path, "saveHandler", title, method, "", "",
                             IF method = POST THEN form ELSE <<>>, r.calls)
           /\ store' = r.store
           /\ hist' = [hist EXCEPT ![title] =
                          IF IsRedirect(resp') THEN [op |-> "saved", data |-> form]
                          ELSE IF r.store[title] = store[title] THEN @
                          ELSE NoHist]
    /\ UNCHANGED removing

\* deleteHandler up to os.Remove: it answers 400 or 404, or goes on.
DeleteCheckH(via, path, method) ==
    /\ Idle
    /\ RoutedTo(path, "deleteHandler")
    /\ Match[path].ok
    /\ LET title == Match[path].title
           r == deleteHandlerCheck(store, title, method)
       IN  IF r.goOn
           THEN /\ removing' = [removing EXCEPT ![title] = @ + 1]
                /\ UNCHANGED resp
           ELSE /\ resp' = Served(via, path, "deleteHandler", title, method,
                                  "", "", <<>>, r.calls)
                /\ UNCHANGED removing
    /\ UNCHANGED <<store, hist>>

\* A deleteHandler that passed its check calls os.Remove and answers.
DeleteRemove(title, fault) ==
    /\ removing[title] > 0
    /\ LET r == deleteHandlerRemove(store, title, fault)
       IN  /\ resp' = [Served("direct", P_delete \o title, "deleteHandler",
                              title, POST, "", "", <<>>, r.calls)
                       EXCEPT !.removeErr = r.err,
                              !.absentAtRemove = ~store[title].exists]
           /\ store' = r.store
           /\ hist' = [hist EXCEPT ![title] =
                          IF IsRedirect(resp') THEN [op |-> "deleted", data |-> <<>>]
                          ELSE IF r.store[title] = store[title] THEN @
                          ELSE NoHist]
    /\ removing' = [removing EXCEPT ![title] = @ - 1]

\* ---- the requests clients send

MuxRedirect == \E path \in Paths : MuxRedirectH("direct", path)

RedirFrontPage == \E path \in Paths : RedirFrontPageH("direct", path)

NotFound == \E path \in Paths : NotFoundH("direct", path)

View ==
    \E path \in Accepted["viewHandler"], q \in Queries, tmplErr \in BOOLEAN :
        ViewH("direct", path, q.from_save, q.from_delete, tmplErr)

Edit == \E path \in Accepted["editHandler"], tmplErr \in BOOLEAN : EditH("direct", path, tmplErr)

Save ==
    \E path \in Accepted["saveHandler"], method \in Methods, form \in FormBodies :
        \E fault \in (IF method = POST THEN WriteFaults(form) ELSE {NoFault}) :
            SaveH("direct", path, method, form, fault)

DeleteCheck ==
    \E path \in Accepted["deleteHandler"], method \in Methods : DeleteCheckH("direct", path, method)

Remove == \E title \in Titles, fault \in BOOLEAN : DeleteRemove(title, fault)

\* The client follows the redirect it received: a GET of the Location (after
\* a 307 the method is kept, but viewHandler does not read it).
FollowTo(loc, tmplErr) ==
    \/ ViewH("follow", loc.path, loc.from_save, loc.from_delete, tmplErr)
    \/ EditH("follow", loc.path, tmplErr)
    \/ SaveH("follow", loc.path, "GET", <<>>, NoFault)
    \/ DeleteCheckH("follow", loc.path, "GET")
    \/ NotFoundH("follow", loc.path)
    \/ RedirFrontPageH("follow", loc.path)

Follow ==
    /\ IsRedirect(resp)
    /\ \E tmplErr \in BOOLEAN : FollowTo(Location(resp), tmplErr)

Init ==
    /\ store \in [Titles -> {NoFile} \cup {File(b) : b \in FormBodies}]
    /\ removing = [t \in Titles |-> 0]
    /\ resp = NoResp
    /\ hist = [t \in Titles |-> NoHist]

Next ==
    \/ MuxRedirect
    \/ RedirFrontPage
    \/ NotFound
    \/ View
    \/ Edit
    \/ Save
    \/ DeleteCheck
    \/ Remove
    \/ Follow

Spec == Init /\ [][Next]_vars

\* ---- loading pages of any content: the store holds one page with a body
\* over BodyChars, and pages are only read.

InitExpand ==
    /\ \E b \in Texts : store = [t \in Titles |->
                                    IF t = OtherTitle THEN File(b) ELSE NoFile]
    /\ removing = [t \in Titles |-> 0]
    /\ resp = NoResp
    /\ hist = [t \in Titles |-> NoHist]

LoadView ==
    \E path \in Accepted["viewHandler"] : ViewH("direct", path, "", "", FALSE)

LoadEdit ==
    \E path \in Accepted["editHandler"] : EditH("direct", path, FALSE)

NextExpand == LoadView \/ LoadEdit

SpecExpand == InitExpand /\ [][NextExpand]_vars

\* ------------------------------------------------------------ properties

\* The page the handler passed to renderTemplate, when it rendered one.
Rendered(r) == r.calls # <<>> /\ r.calls[1].fn = "ExecuteTemplate"
RenderedPage(r) == r.calls[1].page

\* C1: round trip.  While the last save of a title that was answered with
\* its success redirect has not been followed by another save or delete of
\* that title, loadPage(title) succeeds and returns a Page with that title
\* and exactly the saved body (the empty body included), and a view or edit
\* of the title renders that body.
C1_RoundTrip ==
    \A t \in Titles :
        hist[t].op = "saved" =>
            /\ ~loadPage(store, t).err
            /\ loadPage(store, t).page.present
            /\ loadPage(store, t).page.Title = t
            /\ loadPage(store, t).page.Body = hist[t].data
            /\ (Rendered(resp) /\ resp.title = t =>
                    /\ RenderedPage(resp).Title = t
                    /\ RenderedPage(resp).Body = hist[t].data)

\* A page saved with the body "[]"; the client followed the redirect of the
\* save and the page was loaded and rendered.
C1_Witness ==
    \E t \in Titles :
        /\ hist[t].op = "saved"
        /\ hist[t].data = <<"[","]">>
        /\ resp.handler = "viewHandler"
        /\ resp.title = t
        /\ resp.via = "follow"
        /\ Rendered(resp)

\* C2: after a POST /delete/<title> answered with the success redirect, and
\* with no save of the title since, loadPage(title) returns an error and no
\* Page: a GET /view/<title> is redirected to /edit/<title>, whatever its
\* query, and a POST /delete/<title> is answered 404.
C2_DeleteThenLoad ==
    \A t \in Titles :
        hist[t].op = "deleted" =>
            /\ loadPage(store, t).err
            /\ ~loadPage(store, t).page.present
            /\ \A q \in Queries, e \in BOOLEAN :
                  viewHandler(store, t, q.from_save, q.from_delete, e)
                    = <<RedirectCall(EditLoc(t), StatusFound)>>
            /\ deleteHandlerCheck(store, t, POST)
                 = [calls |-> <<ErrorCall("404 - Page not found", StatusNotFound)>>,
                    goOn |-> FALSE]
            /\ (resp.handler = "viewHandler" /\ resp.title = t =>
                    /\ Status(resp) = StatusFound
                    /\ IsRedirect(resp)
                    /\ Location(resp) = EditLoc(t))
            /\ (resp.handler = "deleteHandler" /\ resp.title = t
                  /\ ~IsRedirect(resp) /\ ~resp.absentAtRemove /\ resp.method = POST =>
                    Status(resp) = StatusNotFound)

\* The front page was deleted and the client, following the redirect of the
\* delete, was sent on to the edit form.
C2_Witness ==
    /\ hist[FrontPage].op = "deleted"
    /\ resp.handler = "viewHandler"
    /\ resp.title = FrontPage
    /\ resp.via = "follow"
    /\ IsRedirect(resp)

\* C3: a request served by a registered handler whose path is neither the
\* root path / nor a match of validPath is answered 404 by makeHandler, no
\* view, edit, save or delete handler runs and the store is unchanged; only
\* the root path is answered with the 307 redirect to /view/FrontPage.
C3_InvalidPath404 ==
    [][ /\ (/\ resp'.handler \notin {"", "mux"}
            /\ resp'.path # P_root
            /\ ~validPath(resp'.path).ok)
           => /\ Status(resp') = StatusNotFound
              /\ resp'.handler = "makeHandler"
              /\ store' = store
        /\ Status(resp') = StatusTemporaryRedirect => resp'.path = P_root
      ]_vars

\* C4: a request to /save/<title> or /delete/<title> with a method other
\* than POST is answered 400 and leaves the store as it was, whatever the
\* body field holds and whether or not the page exists.
C4_BadMethod400 ==
    [][ (/\ resp'.handler \in {"saveHandler", "deleteHandler"}
         /\ resp'.method # POST)
        => /\ Status(resp') = StatusBadRequest
           /\ resp'.calls = <<ErrorCall("400 - Bad method type", StatusBadRequest)>>
           /\ store' = store
           /\ hist' = hist
      ]_vars

\* A PUT to /delete/<title> of an existing page was answered 400 and the page
\* is still there.
C4_Witness ==
    /\ resp.handler = "deleteHandler"
    /\ resp.method = "PUT"
    /\ Status(resp) = StatusBadRequest
    /\ store[resp.title].exists
    /\ store[resp.title].data # <<>>

\* C5: when os.Remove fails in deleteHandler, the handler makes the single
\* call http.Error with status 500 and stops; the redirect to
\* /view/FrontPage?from_delete=true is issued only when the removal succeeded.
C5_RemoveFailureStops ==
    resp.handler = "deleteHandler" =>
        /\ resp.removeErr =>
              /\ Len(resp.calls) = 1
              /\ resp.calls[1].fn = "Error"
              /\ resp.calls[1].code = StatusInternalServerError
        /\ (\E i \in 1..Len(resp.calls) :
               resp.calls[i] = RedirectCall(DeletedLoc, StatusFound))
              => ~resp.removeErr

\* C6: a POST /delete/<title> whose file is absent when os.Remove is called
\* is answered 404, never 500.
C6_AbsentAtRemove404 ==
    (resp.handler = "deleteHandler" /\ resp.absentAtRemove)
        => Status(resp) = StatusNotFound

\* The page editHandler makes for a title it cannot load: &Page{Title: title}.
EmptyPage(title) ==
    [present |-> TRUE, Title |-> title, Body |-> <<>>, DispBody |-> <<>>,
     FromSave |-> FALSE, FromDelete |-> FALSE]

\* C7: for a title whose page file is absent, GET /view/<title> is answered
\* with the single 302 redirect to /edit/<title>, whatever the query holds:
\* no template is rendered, no flag is set and the store is unchanged.
\* GET /edit/<title> of the absent title renders the edit template with that
\* title and an empty body (status 200 when the template executes).
C7_MissingPage ==
    [][ /\ (resp'.handler = "viewHandler" /\ ~store[resp'.title].exists)
           => /\ resp'.calls = <<RedirectCall(EditLoc(resp'.title), StatusFound)>>
              /\ Status(resp') = StatusFound
              /\ ~Rendered(resp')
              /\ store' = store
        /\ (resp'.handler = "editHandler" /\ ~store[resp'.title].exists)
           => /\ Rendered(resp')
              /\ resp'.calls[1].tmpl = "edit"
              /\ RenderedPage(resp') = EmptyPage(resp'.title)
              /\ \/ resp'.calls = renderTemplate("edit", EmptyPage(resp'.title), FALSE)
                    /\ Status(resp') = StatusOK
                 \/ resp'.calls = renderTemplate("edit", EmptyPage(resp'.title), TRUE)
              /\ store' = store
      ]_vars

\* A view of a missing page whose query carries both flags was redirected to
\* the edit form.
C7_Witness ==
    /\ resp.handler = "viewHandler"
    /\ ~store[resp.title].exists
    /\ resp.from_save = QTrue
    /\ resp.from_delete = QTrue
    /\ resp.calls = <<RedirectCall(EditLoc(resp.title), StatusFound)>>

\* b[i..j] is a token: a bracket pair around zero or more alphanumerics.
Token(b, i, j) ==
    /\ 1 <= i /\ i < j /\ j <= Len(b)
    /\ b[i] = "[" /\ b[j] = "]"
    /\ \A k \in (i + 1)..(j - 1) : b[k] \in Alnum

\* The anchor linking to /view/<name> with <name> as its text.
Anchor(name) ==
    <<"<","a"," ","h","r","e","f","=","\"","/","v","i","e","w","/">> \o name
    \o <<"\"",">">> \o name \o <<"<","/","a",">">>

\* What position k of b contributes to the displayed body: the anchor when a
\* token starts at k, nothing when k lies further inside a token, and the
\* character itself otherwise.
Piece(b, k) ==
    IF \E j \in 1..Len(b) : Token(b, k, j)
    THEN Anchor(SubSeq(b, k + 1, (CHOOSE j \in 1..Len(b) : Token(b, k, j)) - 1))
    ELSE IF \E i \in 1..Len(b), j \in 1..Len(b) : Token(b, i, j) /\ i < k /\ k <= j
    THEN <<>>
    ELSE <<b[k]>>

RECURSIVE PiecesFrom(_, _)
PiecesFrom(b, k) ==
    IF k > Len(b) THEN <<>> ELSE Piece(b, k) \o PiecesFrom(b, k + 1)

\* C8: the DispBody of a loaded page is its body with every token
\* '[' name ']' (name of zero or more alphanumerics) replaced by
\* <a href="/view/name">name</a> and every other character, brackets that form
\* no token included, kept in place; the Body is the stored body, unaltered.
C8_LinkExpansion ==
    Rendered(resp) =>
        /\ RenderedPage(resp).DispBody = PiecesFrom(RenderedPage(resp).Body, 1)
        /\ RenderedPage(resp).Body = store[resp.title].data

\* The page with body "[a][]" was loaded for a view.
C8_Witness ==
    /\ Rendered(resp)
    /\ resp.handler = "viewHandler"
    /\ RenderedPage(resp).Body = <<"[","a","]","[","]">>
    /\ RenderedPage(resp).DispBody = Anchor(<<"a">>) \o Anchor(<<>>)

\* The last response is the success redirect of a delete.
DeleteSucceeded(r) ==
    /\ r.handler = "deleteHandler"
    /\ IsRedirect(r)
    /\ Location(r) = DeletedLoc

\* C9 as claimed: whenever a delete succeeded and the client then follows its
\* redirect, the view template is rendered for FrontPage with FromDelete set
\* (the chain never ends on the edit form).
C9_BannerAlways ==
    [][ (DeleteSucceeded(resp) /\ resp'.via = "follow")
        => /\ Rendered(resp')
           /\ resp'.calls[1].tmpl = "view"
           /\ RenderedPage(resp').Title = FrontPage
           /\ RenderedPage(resp').FromDelete
      ]_vars

\* C9, amended: whenever a delete succeeded and the client then follows its
\* redirect, then if the page file of FrontPage exists the view template is
\* rendered for FrontPage with FromDelete set and FromSave unset (status 200
\* when the template executes), and if it does not exist (as when FrontPage
\* itself was deleted) the answer is the 302 redirect to /edit/FrontPage and
\* nothing is rendered.
C9_BannerIfFrontPage ==
    [][ (DeleteSucceeded(resp) /\ resp'.via = "follow")
        => /\ resp'.handler = "viewHandler"
           /\ resp'.title = FrontPage
           /\ IF store[FrontPage].exists
              THEN /\ Rendered(resp')
                   /\ resp'.calls[1].tmpl = "view"
                   /\ RenderedPage(resp') =
                        [present |-> TRUE, Title |-> FrontPage,
                         Body |-> store[FrontPage].data,
                         DispBody |-> PiecesFrom(store[FrontPage].data, 1),
                         FromSave |-> FALSE, FromDelete |-> TRUE]
                   /\ resp'.calls[1].code = StatusOK => Status(resp') = StatusOK
              ELSE resp'.calls = <<RedirectCall(EditLoc(FrontPage), StatusFound)>>
      ]_vars

\* Another page was deleted and the client, following the redirect, got the
\* front page rendered with the delete banner.
C9_Witness ==
    /\ hist[OtherTitle].op = "deleted"
    /\ resp.via = "follow"
    /\ resp.handler = "viewHandler"
    /\ resp.title = FrontPage
    /\ resp.from_delete = QTrue
    /\ Rendered(resp)
    /\ RenderedPage(resp).FromDelete
    /\ Status(resp) = StatusOK

\* C10: GET /, view and edit requests, requests the mux or makeHandler answers
\* and requests answered 400 or 404 never change the store; a step changes
\* the file of a title only in a save or delete request for that title.
C10_Frame ==
    [][ /\ \A t \in Titles :
              store'[t] # store[t]
                => /\ resp'.handler \in {"saveHandler", "deleteHandler"}
                   /\ resp'.title = t
                   /\ resp'.method = POST
        /\ resp'.handler \in {"mux", "redirFrontPage", "makeHandler",
                              "viewHandler", "editHandler"}
              => store' = store
        /\ Status(resp') \in {StatusBadRequest, StatusNotFound}
              => store' = store
      ]_vars

\* A save changed the front page while a delete of the other page, which
\* exists, was between its check and its removal.
C10_Witness ==
    /\ resp.handler = "saveHandler"
    /\ resp.title = FrontPage
    /\ IsRedirect(resp)
    /\ store[FrontPage] = File(<<"[","]">>)
    /\ store[OtherTitle].exists
    /\ removing[OtherTitle] > 0

====
